---- MODULE Spec2Model ----
(***************************************************************************)
(* Kernel-based control-point optimizer of the Map Enhancer Wizard         *)
(* (classes/optimizer.py, driven by the Tk event loop of the wizard).      *)
(*                                                                         *)
(* Conventions of the model                                                *)
(*   - Python None is the empty sequence, a present value v is <<v>>.      *)
(*   - Python lists are sequences; list index i is sequence index i + 1.   *)
(*   - A float position is kept in fixed point: an integer number of       *)
(*     1/Q pixel.  float32 rounding of alpha * F is rounding to the        *)
(*     nearest 1/Q pixel (ties to even).                                   *)
(*   - A grid is a function from its cells <<x, y>> to their values; its   *)
(*     shape is read from its domain.                                      *)
(*   - A Tk variable keeps its last number; malformed holds the names of   *)
(*     the variables whose text is no number, for which get() raises.      *)
(*   - cv2.kmeans and the cv2 corner detection are external: their result  *)
(*     is an input of generate chosen among the results they can return.   *)
(***************************************************************************)
EXTENDS Integers, Sequences, FiniteSets, TLC

\* ---------------------------------------------------------------- bounds
W == 3
H == 2
Q == 2
AlphaDen == 4
MaxIterLabel == 2
MaxPending == 1

\* ------------------------------------------------------ program constants
MaxPoints == 2000
KernelMin == 3
KernelMax == 99
AnchorCapFloor == 8
AnchorCapMax == 250
AnchorRatioPct == 18

\* ---------------------------------------------------------------- basics
None == <<>>
Some(v) == <<v>>
Val(o) == o[1]

\* F applied to the value of e: a local of the code, computed once
Bind(e, F(_)) == CHOOSE r \in {F(x) : x \in {e}} : TRUE

Min2(a, b) == IF a <= b THEN a ELSE b
Max2(a, b) == IF a >= b THEN a ELSE b

clamp(v, lo, hi) == Max2(lo, Min2(hi, v))

\* Python round() / np.round: n / d to the nearest integer, ties to even.
RoundHalfEven(num, den) ==
    LET f == num \div den
        r == num - f * den
    IN  IF 2 * r < den THEN f
        ELSE IF 2 * r > den THEN f + 1
        ELSE IF f % 2 = 0 THEN f ELSE f + 1

\* int(round(px)) of a position coordinate kept in 1/Q pixel
PyRound(p) == RoundHalfEven(p, Q)

\* the cells of a w x h grid
Grid(w, h) == (0 .. w - 1) \X (0 .. h - 1)

Cells == Grid(W, H)

\* h, w = grid.shape
WidthOf(grid) == Cardinality({c[1] : c \in DOMAIN grid})
HeightOf(grid) == Cardinality({c[2] : c \in DOMAIN grid})

RECURSIVE SumSeq(_)
SumSeq(s) == IF s = <<>> THEN 0 ELSE Head(s) + SumSeq(Tail(s))

RECURSIVE SetToSortedSeq(_)
SetToSortedSeq(S) ==
    IF S = {} THEN <<>>
    ELSE IF Cardinality(S) = 1 THEN <<CHOOSE x \in S : TRUE>>
    ELSE LET m == CHOOSE x \in S :
                     Cardinality({y \in S : y < x}) = Cardinality(S) \div 2
         IN  SetToSortedSeq({y \in S : y < m}) \o SetToSortedSeq({y \in S : y >= m})

\* ------------------------------------------------------------- the maps
\* Grayscale rasters a folder can hold: 0 is an obstacle, 255 free, 205 unknown.
MapFree == [c \in Grid(W - 1, H) |-> 255]
MapA == [c \in Cells |-> IF c \in {<<0, 0>>, <<W - 1, 0>>} THEN 0
                         ELSE IF c = <<1, H - 1>> THEN 205 ELSE 255]
Maps == {MapFree, MapA}

\* a map with an obstacle in each corner
MapCorners ==
    [c \in Cells |-> IF c[1] \in {0, W - 1} /\ c[2] \in {0, H - 1} THEN 0 ELSE 255]

\* MapCorners without the obstacle of the last corner
MapThree == [c \in Cells |-> IF c = <<W - 1, H - 1>> THEN 255 ELSE MapCorners[c]]

\* maps with two, three and four obstacles
RegenMaps == {MapA, MapThree, MapCorners}

\* a map with one obstacle
MapOne == [c \in Cells |-> IF c = <<0, 0>> THEN 0 ELSE 255]

\* maps with one, two and three obstacles
CountMaps == {MapOne, MapA, MapThree}

\* ------------------------------------------------------ parameter values
\* alpha is AlphaVals / AlphaDen; tol is in (1/Q pixel)^2
NVals == {3}
KernelVals == {3}
AlphaVals == {1}
LcVals == {2}
LsVals == {1}
NbRadiusVals == {2}
MaxItersVals == {2}
TolVals == {0}

\* the corner-anchor parameters as the optimizer is built, and as typed later
CaInitVals == {0}
CaVals == {0, 1}

\* ------------------------------------------------------- pure functions
\* Optimizer.occupied_coords
occupied_coords(src) ==
    IF src = None THEN {} ELSE {c \in DOMAIN Val(src) : Val(src)[c] = 0}

\* base_occ = (base_map == 0).astype(uint8)
OccOf(gray) == [c \in DOMAIN gray |-> IF gray[c] = 0 THEN 1 ELSE 0]

\* Optimizer.refresh_working_map_from_occ
refresh_working_map_from_occ(occ) ==
    IF occ = None THEN None
    ELSE Some([c \in DOMAIN Val(occ) |-> IF Val(occ)[c] > 0 THEN 0 ELSE 255])

\* Optimizer.score
RECURSIVE ScoreFrom(_, _, _)
ScoreFrom(P, prs, k) ==
    IF k > Len(prs) THEN 0
    ELSE LET i == prs[k][1]
             j == prs[k][2]
             dx == P[j][1] - P[i][1]
             dy == P[j][2] - P[i][2]
         IN  dx * dx + dy * dy + ScoreFrom(P, prs, k + 1)

score(P, prs) == IF prs = <<>> THEN 0 ELSE ScoreFrom(P, prs, 1)

\* ------------------------------------------------------------ neighbors
\* build_neighbors with the two comparisons taken the other way: the radius
\* exclusive, a coincident point a neighbor
build_neighbors_Exclusive(pts, nb_radius) ==
    LET R2 == (nb_radius * Q) * (nb_radius * Q)
        d2(i, j) == (pts[j][1] - pts[i][1]) * (pts[j][1] - pts[i][1])
                    + (pts[j][2] - pts[i][2]) * (pts[j][2] - pts[i][2])
    IN  [i \in 1 .. Len(pts) |->
            {j \in 1 .. Len(pts) : i # j /\ d2(i, j) < R2}]

\* Optimizer.build_neighbors
build_neighbors(pts, nb_radius) ==
    LET R2 == (nb_radius * Q) * (nb_radius * Q)
        d2(i, j) == (pts[j][1] - pts[i][1]) * (pts[j][1] - pts[i][1])
                    + (pts[j][2] - pts[i][2]) * (pts[j][2] - pts[i][2])
    IN  [i \in 1 .. Len(pts) |->
            {j \in 1 .. Len(pts) : d2(i, j) > 0 /\ d2(i, j) <= R2}]

\* Optimizer.forces: the pair loop
RECURSIVE PairForces(_, _, _, _, _)
PairForces(F, P, prs, lc, k) ==
    IF k > Len(prs) THEN F
    ELSE LET i == prs[k][1]
             j == prs[k][2]
             d == <<P[j][1] - P[i][1], P[j][2] - P[i][2]>>
             F1 == [F EXCEPT ![i] = <<F[i][1] + lc * d[1], F[i][2] + lc * d[2]>>]
             F2 == [F1 EXCEPT ![j] = <<F1[j][1] - lc * d[1], F1[j][2] - lc * d[2]>>]
         IN  PairForces(F2, P, prs, lc, k + 1)

\* Optimizer.forces, given the neighbor lists it uses
forces(P, prs, neigh, lc, ls) ==
    LET F0 == [i \in 1 .. Len(P) |-> <<0, 0>>]
        FP == PairForces(F0, P, prs, lc, 1)
        sx(i) == SumSeq([t \in 1 .. Len(SetToSortedSeq(neigh[i])) |->
                            P[SetToSortedSeq(neigh[i])[t]][1] - P[i][1]])
        sy(i) == SumSeq([t \in 1 .. Len(SetToSortedSeq(neigh[i])) |->
                            P[SetToSortedSeq(neigh[i])[t]][2] - P[i][2]])
    IN  [i \in 1 .. Len(P) |->
            IF i \in DOMAIN neigh /\ neigh[i] # {}
            THEN <<FP[i][1] + ls * sx(i), FP[i][2] + ls * sy(i)>>
            ELSE FP[i]]

\* an extraction that reads the cells outside the grid as occupied
extract_kernel_OutsideOccupied(occ01, cx, cy, k) ==
    LET r == k \div 2
        x0 == PyRound(cx) - r
        y0 == PyRound(cy) - r
    IN  [k |-> k,
         a |-> [kc \in (0 .. k - 1) \X (0 .. k - 1) |->
                  IF <<x0 + kc[1], y0 + kc[2]>> \in DOMAIN occ01
                  THEN occ01[<<x0 + kc[1], y0 + kc[2]>>] ELSE 1]]

\* Optimizer.extract_kernel_at: a k x k patch, <<kx, ky>> -> occupancy
extract_kernel_at(occ01, cx, cy, k) ==
    LET r == k \div 2
        x0 == PyRound(cx) - r
        y0 == PyRound(cy) - r
    IN  [k |-> k,
         a |-> [kc \in (0 .. k - 1) \X (0 .. k - 1) |->
                  IF <<x0 + kc[1], y0 + kc[2]>> \in DOMAIN occ01
                  THEN occ01[<<x0 + kc[1], y0 + kc[2]>>] ELSE 0]]

\* the clipped window [xs0, xs1) x [ys0, ys1) of a k x k footprint at a position
InFootprint(c, pos, k, w, h) ==
    LET r == k \div 2
        x0 == PyRound(pos[1]) - r
        y0 == PyRound(pos[2]) - r
        xs0 == Max2(0, x0)
        ys0 == Max2(0, y0)
        xs1 == Min2(w, x0 + k)
        ys1 == Min2(h, y0 + k)
    IN  /\ xs0 < xs1 /\ ys0 < ys1
        /\ xs0 <= c[1] /\ c[1] < xs1
        /\ ys0 <= c[2] /\ c[2] < ys1

\* Optimizer.compose_from_kernels: the erase loop
RECURSIVE ErasePass(_, _, _, _, _)
ErasePass(out, prev_positions, kernels, k, t) ==
    IF t > Min2(Len(prev_positions), Len(kernels)) THEN out
    ELSE ErasePass([c \in DOMAIN out |->
                      IF InFootprint(c, prev_positions[t], k, WidthOf(out), HeightOf(out))
                      THEN 0 ELSE out[c]],
                   prev_positions, kernels, k, t + 1)

\* Optimizer.compose_from_kernels: the write loop
RECURSIVE WritePass(_, _, _, _, _)
WritePass(out, new_positions, kernels, k, t) ==
    IF t > Min2(Len(new_positions), Len(kernels)) THEN out
    ELSE LET r == k \div 2
             x0 == PyRound(new_positions[t][1]) - r
             y0 == PyRound(new_positions[t][2]) - r
         IN  WritePass([c \in DOMAIN out |->
                          IF InFootprint(c, new_positions[t], k, WidthOf(out), HeightOf(out))
                          THEN kernels[t].a[<<c[1] - x0, c[2] - y0>>]
                          ELSE out[c]],
                       new_positions, kernels, k, t + 1)

\* a composition that erases the old footprints and writes nothing back
compose_EraseOnly(prev_occ, prev_positions, new_positions, kernels) ==
    LET k == IF kernels # <<>> THEN kernels[1].k ELSE 0
    IN  ErasePass(prev_occ, prev_positions, kernels, k, 1)

\* a composition that writes the kernels first and erases afterwards
compose_WriteThenErase(prev_occ, prev_positions, new_positions, kernels) ==
    LET k == IF kernels # <<>> THEN kernels[1].k ELSE 0
        written == WritePass(prev_occ, new_positions, kernels, k, 1)
    IN  ErasePass(written, prev_positions, kernels, k, 1)

\* Optimizer.compose_from_kernels
compose_from_kernels(prev_occ, prev_positions, new_positions, kernels) ==
    LET k == IF kernels # <<>> THEN kernels[1].k ELSE 0
        erased == ErasePass(prev_occ, prev_positions, kernels, k, 1)
    IN  WritePass(erased, new_positions, kernels, k, 1)

\* Optimizer.assign_anchor_points, lines 433-434: the most anchors kept among
\* npoints control points
AnchorCap(npoints) ==
    Min2(Max2(AnchorCapFloor, (AnchorRatioPct * npoints) \div 100), AnchorCapMax)

RECURSIVE Gcd(_, _)
Gcd(a, b) == IF b = 0 THEN a ELSE Gcd(b, a % b)

RECURSIVE IsPow2(_)
IsPow2(x) == x = 1 \/ (x > 1 /\ x % 2 = 0 /\ IsPow2(x \div 2))

\* lines 437-443: step = len(uniq) / float(cap) is a double and acc is the
\* sum of t such steps. When the quotient is a binary fraction the sum is
\* t * len / cap exactly; otherwise, at a step t where t * len / cap is a whole
\* number, the rounded sum can lie just below it and int(acc) be one less.
\* StrideSlips is the set of the sets of steps at which this can happen.
StrideSlips(len, npoints) ==
    LET cap == AnchorCap(npoints)
    IN  IF len <= cap \/ IsPow2(cap \div Gcd(len, cap)) THEN {{}}
        ELSE SUBSET {t \in 1 .. cap - 1 : (t * len) % cap = 0}

\* the stride that always keeps the first cap entries
AnchorPick_Prefix(uniq, npoints, low) ==
    {uniq[t] : t \in 1 .. Min2(Len(uniq), AnchorCap(npoints))}

\* Optimizer.assign_anchor_points, lines 433-448: cap and stride over the
\* deduplicated confirmed list; low is the set of steps at which the sum of
\* the steps lies below the whole number
AnchorPick(uniq, npoints, low) ==
    LET cap == AnchorCap(npoints)
    IN  IF Len(uniq) > cap
        THEN {uniq[((t * Len(uniq)) \div cap) - (IF t \in low THEN 1 ELSE 0) + 1] :
                 t \in 0 .. cap - 1}
        ELSE {uniq[t] : t \in 1 .. Len(uniq)}

\* what the corner detection and the right-angle test confirm among npoints
\* control points: nothing, the first control point, the third, or the first
\* and the fourth
AnchorOutcomes(npoints) == {c \in {{}, {1}, {3}, {1, 4}} : c \subseteq 1 .. npoints}

\* the results cv2.kmeans can return for K clusters: every cell gets a label,
\* no cluster is empty, a center is the mean of its cluster
RECURSIVE SumCoord(_, _)
SumCoord(S, ax) ==
    IF S = {} THEN 0
    ELSE LET c == CHOOSE c \in S : TRUE IN c[ax] + SumCoord(S \ {c}, ax)

CellLess(c, e) == c[2] < e[2] \/ (c[2] = e[2] /\ c[1] < e[1])

FirstOf(S) == CHOOSE c \in S : \A e \in S \ {c} : CellLess(c, e)

\* clusters are numbered in the order of their first cell in the data
KMeansLabels(pts, K) ==
    {lab \in [pts -> 1 .. K] :
        /\ \A g \in 1 .. K : \E c \in pts : lab[c] = g
        /\ \A g \in 1 .. K - 1 :
              CellLess(FirstOf({c \in pts : lab[c] = g}),
                       FirstOf({c \in pts : lab[c] = g + 1}))}

\* Optimizer.generate, lines 166-170: centers rounded, clipped, made float
CentersOf(pts, K, lab, w, h) ==
    [g \in 1 .. K |->
        LET cl == {c \in pts : lab[c] = g}
        IN  <<Q * clamp(RoundHalfEven(SumCoord(cl, 1), Cardinality(cl)), 0, w - 1),
              Q * clamp(RoundHalfEven(SumCoord(cl, 2), Cardinality(cl)), 0, h - 1)>>]

\* ------------------------------------------------------------ the state
VARIABLES
    processed_map,   \* app.processed_map (None before a folder is loaded)
    points, init, prev, pairs, selected, running, last_score, neighbors,
    kernels, base_map, base_occ, work_occ, working_map, need_prepare,
    anchor_idx,
    n, kernel, alpha, lc, ls, nb_radius, max_iters, tol,   \* the Tk variables
    malformed,       \* the Tk variables whose text is not a number just now
    ca,              \* the corner-anchor parameters ca_*, as one value
    ca_after_id,     \* _ca_after_id: the last rebuild timer asked for
    timers,          \* the rebuild timers app.after holds and has not run
    anchor_ca,       \* the ca_* values the anchors were last detected with
    lbl_iter,        \* the number shown by the "iter: k" label
    lbl_score,       \* the score shown by the "score: s" label (None: "-")
    pending,         \* loop_tick callbacks queued by app.after, oldest first
    last             \* what the last handler did and reported

ovars == <<points, init, prev, pairs, selected, running, last_score, neighbors,
           kernels, base_map, base_occ, work_occ, working_map, need_prepare,
           anchor_idx, n, kernel, alpha, lc, ls, nb_radius, max_iters, tol,
           malformed, ca, ca_after_id, timers, anchor_ca, lbl_iter, lbl_score>>

vars == <<processed_map, ovars, pending, last>>

\* the report of an iteration handler, kept until the next handler runs
Report(op, res) == [op |-> op, res |-> res]

\* handlers that run no iteration
Quiet == Report("other", "none")

\* the Optimizer object as one value
Self ==
    [points |-> points, init |-> init, prev |-> prev, pairs |-> pairs,
     selected |-> selected, running |-> running, last_score |-> last_score,
     neighbors |-> neighbors, kernels |-> kernels, base_map |-> base_map,
     base_occ |-> base_occ, work_occ |-> work_occ, working_map |-> working_map,
     need_prepare |-> need_prepare, anchor_idx |-> anchor_idx, n |-> n,
     kernel |-> kernel, alpha |-> alpha, lc |-> lc, ls |-> ls,
     nb_radius |-> nb_radius, max_iters |-> max_iters, tol |-> tol,
     malformed |-> malformed, ca |-> ca, ca_after_id |-> ca_after_id,
     timers |-> timers, anchor_ca |-> anchor_ca,
     lbl_iter |-> lbl_iter, lbl_score |-> lbl_score]

Assign(s) ==
    \E v \in {s} :
        /\ points' = v.points /\ init' = v.init /\ prev' = v.prev
        /\ pairs' = v.pairs /\ selected' = v.selected /\ running' = v.running
        /\ last_score' = v.last_score /\ neighbors' = v.neighbors
        /\ kernels' = v.kernels /\ base_map' = v.base_map /\ base_occ' = v.base_occ
        /\ work_occ' = v.work_occ /\ working_map' = v.working_map
        /\ need_prepare' = v.need_prepare /\ anchor_idx' = v.anchor_idx
        /\ n' = v.n /\ kernel' = v.kernel /\ alpha' = v.alpha /\ lc' = v.lc
        /\ ls' = v.ls /\ nb_radius' = v.nb_radius /\ max_iters' = v.max_iters
        /\ tol' = v.tol /\ lbl_iter' = v.lbl_iter /\ lbl_score' = v.lbl_score
        /\ malformed' = v.malformed /\ ca' = v.ca /\ ca_after_id' = v.ca_after_id
        /\ timers' = v.timers /\ anchor_ca' = v.anchor_ca

\* ------------------------------------------------- the methods, as functions
\* Optimizer.assign_anchor_points; confirmed is what the corner detection and
\* the right-angle test confirm among the control points, in index order
assign_anchor_points(s, base, confirmed, low) ==
    IF s.points = <<>> \/ base = None
    THEN [s EXCEPT !.anchor_idx = {}, !.anchor_ca = None]
    ELSE IF confirmed = <<>>
    THEN [s EXCEPT !.anchor_idx = {}, !.anchor_ca = Some(s.ca)]
    ELSE [s EXCEPT !.anchor_idx = AnchorPick(confirmed, Len(s.points), low),
                   !.anchor_ca = Some(s.ca)]

\* Optimizer.prepare, lines 460-465: what is assigned before kernel.get()
prepare_grids(s, base) ==
    LET bocc == OccOf(Val(base))
    IN  [s EXCEPT !.base_map = base,
                  !.base_occ = Some(bocc),
                  !.work_occ = Some(bocc),
                  !.working_map = refresh_working_map_from_occ(Some(bocc)),
                  !.init = s.points,
                  !.prev = s.points]

\* Optimizer.prepare, lines 460-471: what is assigned before nb_radius.get()
\* in build_neighbors; kernel.set(k) has run the trace that sets need_prepare
prepare_kernels(s, base) ==
    LET k0 == IF s.kernel % 2 = 0 THEN s.kernel + 1 ELSE s.kernel
        k == clamp(k0, KernelMin, KernelMax)
    IN  [prepare_grids(s, base) EXCEPT
            !.kernel = k,
            !.need_prepare = TRUE,
            !.kernels = [t \in 1 .. Len(s.points) |->
                           extract_kernel_at(OccOf(Val(base)), s.points[t][1],
                                             s.points[t][2], k)],
            !.neighbors = None]

\* a prepare that captures no kernel for the last control point
prepare_DropLastKernel(s, base) ==
    IF base = None THEN [ok |-> FALSE, res |-> "NoMapLoaded", s |-> s]
    ELSE IF s.points = <<>> THEN [ok |-> FALSE, res |-> "NoControlPoints", s |-> s]
    ELSE IF "kernel" \in s.malformed
    THEN [ok |-> FALSE, res |-> "raised", s |-> prepare_grids(s, base)]
    ELSE IF "nb_radius" \in s.malformed
    THEN [ok |-> FALSE, res |-> "raised", s |-> prepare_kernels(s, base)]
    ELSE LET bocc == OccOf(Val(base))
             k0 == IF s.kernel % 2 = 0 THEN s.kernel + 1 ELSE s.kernel
             k == clamp(k0, KernelMin, KernelMax)
         IN  [ok |-> TRUE, res |-> "ok",
              s |-> [s EXCEPT
                 !.base_map = base,
                 !.base_occ = Some(bocc),
                 !.work_occ = Some(bocc),
                 !.working_map = refresh_working_map_from_occ(Some(bocc)),
                 !.init = s.points,
                 !.prev = s.points,
                 !.kernel = k,
                 !.kernels = [t \in 1 .. Len(s.points) - 1 |->
                                extract_kernel_at(bocc, s.points[t][1], s.points[t][2], k)],
                 !.neighbors = Some(build_neighbors(s.points, s.nb_radius)),
                 !.last_score = Some(score(s.points, s.pairs)),
                 !.lbl_score = Some(score(s.points, s.pairs)),
                 !.lbl_iter = 0,
                 !.need_prepare = FALSE]]

\* a prepare that leaves the initial points as generate set them
prepare_KeepsInit(s, base) ==
    IF base = None THEN [ok |-> FALSE, res |-> "NoMapLoaded", s |-> s]
    ELSE IF s.points = <<>> THEN [ok |-> FALSE, res |-> "NoControlPoints", s |-> s]
    ELSE IF "kernel" \in s.malformed
    THEN [ok |-> FALSE, res |-> "raised", s |-> prepare_grids(s, base)]
    ELSE IF "nb_radius" \in s.malformed
    THEN [ok |-> FALSE, res |-> "raised", s |-> prepare_kernels(s, base)]
    ELSE LET bocc == OccOf(Val(base))
             k0 == IF s.kernel % 2 = 0 THEN s.kernel + 1 ELSE s.kernel
             k == clamp(k0, KernelMin, KernelMax)
         IN  [ok |-> TRUE, res |-> "ok",
              s |-> [s EXCEPT
                 !.base_map = base,
                 !.base_occ = Some(bocc),
                 !.work_occ = Some(bocc),
                 !.working_map = refresh_working_map_from_occ(Some(bocc)),
                 !.prev = s.points,
                 !.kernel = k,
                 !.kernels = [t \in 1 .. Len(s.points) |->
                                extract_kernel_at(bocc, s.points[t][1], s.points[t][2], k)],
                 !.neighbors = Some(build_neighbors(s.points, s.nb_radius)),
                 !.last_score = Some(score(s.points, s.pairs)),
                 !.lbl_score = Some(score(s.points, s.pairs)),
                 !.lbl_iter = 0,
                 !.need_prepare = FALSE]]

\* Optimizer.prepare
prepare(s, base) ==
    IF base = None THEN [ok |-> FALSE, res |-> "NoMapLoaded", s |-> s]
    ELSE IF s.points = <<>> THEN [ok |-> FALSE, res |-> "NoControlPoints", s |-> s]
    ELSE IF "kernel" \in s.malformed
    THEN [ok |-> FALSE, res |-> "raised", s |-> prepare_grids(s, base)]
    ELSE IF "nb_radius" \in s.malformed
    THEN [ok |-> FALSE, res |-> "raised", s |-> prepare_kernels(s, base)]
    ELSE LET bocc == OccOf(Val(base))
             k0 == IF s.kernel % 2 = 0 THEN s.kernel + 1 ELSE s.kernel
             k == clamp(k0, KernelMin, KernelMax)
         IN  [ok |-> TRUE, res |-> "ok",
              s |-> [s EXCEPT
                 !.base_map = base,
                 !.base_occ = Some(bocc),
                 !.work_occ = Some(bocc),
                 !.working_map = refresh_working_map_from_occ(Some(bocc)),
                 !.init = s.points,
                 !.prev = s.points,
                 !.kernel = k,
                 !.kernels = [t \in 1 .. Len(s.points) |->
                                extract_kernel_at(bocc, s.points[t][1], s.points[t][2], k)],
                 !.neighbors = Some(build_neighbors(s.points, s.nb_radius)),
                 !.last_score = Some(score(s.points, s.pairs)),
                 !.lbl_score = Some(score(s.points, s.pairs)),
                 !.lbl_iter = 0,
                 !.need_prepare = FALSE]]

\* h, w = base.shape, <<w, h>>; a missing base has no shape to read
ShapeOf(base) ==
    IF base = None THEN <<1, 1>> ELSE <<WidthOf(Val(base)), HeightOf(Val(base))>>

\* proposed positions that let the anchors follow the forces like any point
NewPositions_AnchorsMove(s, neigh, w, h) ==
    LET P == s.points
        F == forces(P, s.pairs, neigh, s.lc, s.ls)
    IN  [i \in 1 .. Len(P) |->
            <<clamp(P[i][1] + RoundHalfEven(s.alpha * F[i][1], AlphaDen), 0, (w - 1) * Q),
              clamp(P[i][2] + RoundHalfEven(s.alpha * F[i][2], AlphaDen), 0, (h - 1) * Q)>>]

\* Optimizer.iterate_once, lines 481-493: the proposed positions
NewPositions(s, neigh, w, h) ==
    LET P == s.points
        F == forces(P, s.pairs, neigh, s.lc, s.ls)
    IN  [i \in 1 .. Len(P) |->
            IF i \in s.anchor_idx THEN P[i]
            ELSE <<clamp(P[i][1] + RoundHalfEven(s.alpha * F[i][1], AlphaDen), 0, (w - 1) * Q),
                   clamp(P[i][2] + RoundHalfEven(s.alpha * F[i][2], AlphaDen), 0, (h - 1) * Q)>>]

\* Optimizer.forces, lines 239-246: lc.get(), ls.get() and, when the graph is
\* to be built, nb_radius.get() raise on a text that is not a number
ForcesRaise(s) ==
    \/ "lc" \in s.malformed
    \/ "ls" \in s.malformed
    \/ s.neighbors = None /\ s.points # <<>> /\ "nb_radius" \in s.malformed

\* an acceptance test that also takes a score equal to lastScore - tolerance
Improved_AtMost(old_score, new_score, tolv) ==
    old_score = None \/ new_score <= Val(old_score) - tolv

\* Optimizer.iterate_once, line 495
Improved(old_score, new_score, tolv) ==
    old_score = None \/ new_score < Val(old_score) - tolv

\* an iteration that keeps the proposed positions when it is rejected
iterate_once_RejectedMoves(s, base) ==
    Bind(IF s.neighbors = None THEN build_neighbors(s.points, s.nb_radius)
         ELSE Val(s.neighbors), LAMBDA neigh :
    Bind(NewPositions(s, neigh, ShapeOf(base)[1], ShapeOf(base)[2]), LAMBDA P_new :
    Bind(score(P_new, s.pairs), LAMBDA new_score :
    Bind([s EXCEPT !.neighbors = Some(neigh)], LAMBDA s1 :
    Bind(Improved(s.last_score, new_score, s.tol), LAMBDA improved :
        IF ForcesRaise(s)
        THEN [raised |-> TRUE, improved |-> FALSE, old_score |-> s.last_score,
              new_score |-> None, s |-> s]
        ELSE IF "alpha" \in s.malformed \/ base = None \/ s.points = <<>>
        THEN [raised |-> TRUE, improved |-> FALSE, old_score |-> s.last_score,
              new_score |-> None, s |-> s1]
        ELSE IF s.last_score # None /\ "tol" \in s.malformed
        THEN [raised |-> TRUE, improved |-> FALSE, old_score |-> s.last_score,
              new_score |-> Some(new_score), s |-> s1]
        ELSE IF improved /\ s.work_occ = None
        THEN [raised |-> TRUE, improved |-> TRUE, old_score |-> s.last_score,
              new_score |-> Some(new_score), s |-> s1]
        ELSE IF improved
        THEN LET occ == compose_from_kernels(Val(s.work_occ), s.prev, P_new, s.kernels)
             IN  [raised |-> FALSE, improved |-> TRUE, old_score |-> s.last_score,
                  new_score |-> Some(new_score),
                  s |-> [s1 EXCEPT !.work_occ = Some(occ),
                                   !.prev = P_new,
                                   !.points = P_new,
                                   !.last_score = Some(new_score),
                                   !.working_map = refresh_working_map_from_occ(Some(occ))]]
        ELSE [raised |-> FALSE, improved |-> FALSE, old_score |-> s.last_score,
              new_score |-> Some(new_score), s |-> [s1 EXCEPT !.points = P_new]])))))

\* Optimizer.iterate_once; raised: an exception left the method
iterate_once(s, base) ==
    Bind(IF s.neighbors = None THEN build_neighbors(s.points, s.nb_radius)
         ELSE Val(s.neighbors), LAMBDA neigh :
    Bind(NewPositions(s, neigh, ShapeOf(base)[1], ShapeOf(base)[2]), LAMBDA P_new :
    Bind(score(P_new, s.pairs), LAMBDA new_score :
    Bind([s EXCEPT !.neighbors = Some(neigh)], LAMBDA s1 :
    Bind(Improved(s.last_score, new_score, s.tol), LAMBDA improved :
        IF ForcesRaise(s)
        THEN [raised |-> TRUE, improved |-> FALSE, old_score |-> s.last_score,
              new_score |-> None, s |-> s]
        ELSE IF "alpha" \in s.malformed \/ base = None \/ s.points = <<>>
        THEN [raised |-> TRUE, improved |-> FALSE, old_score |-> s.last_score,
              new_score |-> None, s |-> s1]
        ELSE IF s.last_score # None /\ "tol" \in s.malformed
        THEN [raised |-> TRUE, improved |-> FALSE, old_score |-> s.last_score,
              new_score |-> Some(new_score), s |-> s1]
        ELSE IF improved /\ s.work_occ = None
        THEN [raised |-> TRUE, improved |-> TRUE, old_score |-> s.last_score,
              new_score |-> Some(new_score), s |-> s1]
        ELSE IF improved
        THEN LET occ == compose_from_kernels(Val(s.work_occ), s.prev, P_new, s.kernels)
             IN  [raised |-> FALSE, improved |-> TRUE, old_score |-> s.last_score,
                  new_score |-> Some(new_score),
                  s |-> [s1 EXCEPT !.work_occ = Some(occ),
                                   !.prev = P_new,
                                   !.points = P_new,
                                   !.last_score = Some(new_score),
                                   !.working_map = refresh_working_map_from_occ(Some(occ))]]
        ELSE [raised |-> FALSE, improved |-> FALSE, old_score |-> s.last_score,
              new_score |-> Some(new_score), s |-> s1])))))

\* a prepare that failed: refused with a warning, or left by an exception
PrepareReport(op, pr) == IF pr.res = "raised" THEN Report(op, "raised") ELSE Quiet

IterReport(op, it) ==
    Report(op, IF it.raised THEN "raised" ELSE IF it.improved THEN "accepted" ELSE "rejected")

\* Optimizer.stop
stop(s) == IF s.running THEN [s EXCEPT !.running = FALSE] ELSE s

\* a tick that iterates whether or not the driver is running
loop_tick_NoRunningCheck(s, base, it_left, op) ==
    IF it_left <= 0
    THEN [s |-> stop(s), sched |-> <<>>,
          rep |-> Quiet]
    ELSE Bind(iterate_once(s, base), LAMBDA it :
         LET s2 == [it.s EXCEPT !.lbl_score = it.new_score,
                                !.lbl_iter = it.s.lbl_iter + 1]
         IN  IF it.raised
             THEN [s |-> it.s, sched |-> <<>>, rep |-> IterReport(op, it)]
             ELSE IF ~it.improved
             THEN [s |-> stop(s2), sched |-> <<>>, rep |-> IterReport(op, it)]
             ELSE [s |-> s2, sched |-> <<it_left - 1>>, rep |-> IterReport(op, it)])

\* Optimizer.loop_tick; sched holds the it_left of the tick it queues, if any
loop_tick(s, base, it_left, op) ==
    IF ~s.running THEN [s |-> s, sched |-> <<>>, rep |-> Quiet]
    ELSE IF it_left <= 0
    THEN [s |-> stop(s), sched |-> <<>>,
          rep |-> Quiet]
    ELSE Bind(iterate_once(s, base), LAMBDA it :
         LET s2 == [it.s EXCEPT !.lbl_score = it.new_score,
                                !.lbl_iter = it.s.lbl_iter + 1]
         IN  IF it.raised
             THEN [s |-> it.s, sched |-> <<>>, rep |-> IterReport(op, it)]
             ELSE IF ~it.improved
             THEN [s |-> stop(s2), sched |-> <<>>, rep |-> IterReport(op, it)]
             ELSE [s |-> s2, sched |-> <<it_left - 1>>, rep |-> IterReport(op, it)])

\* a reset that keeps the pairs and the anchors of the session it ends
reset_state_KeepsPairsAndAnchors(s) ==
    [s EXCEPT !.running = FALSE, !.points = <<>>, !.init = <<>>, !.prev = <<>>,
              !.neighbors = None, !.kernels = <<>>,
              !.base_map = None, !.base_occ = None, !.work_occ = None,
              !.working_map = None, !.last_score = None, !.need_prepare = FALSE,
              !.selected = None]

\* Optimizer.reset_state
reset_state(s) ==
    [s EXCEPT !.running = FALSE, !.points = <<>>, !.init = <<>>, !.prev = <<>>,
              !.pairs = <<>>, !.neighbors = None, !.kernels = <<>>,
              !.base_map = None, !.base_occ = None, !.work_occ = None,
              !.working_map = None, !.last_score = None, !.need_prepare = FALSE,
              !.anchor_idx = {}, !.anchor_ca = None, !.selected = None]

\* ---------------------------------------------------------------- Init
Init ==
    /\ processed_map = None
    /\ points = <<>> /\ init = <<>> /\ prev = <<>> /\ pairs = <<>>
    /\ selected = None /\ running = FALSE /\ last_score = None
    /\ neighbors = None /\ kernels = <<>>
    /\ base_map = None /\ base_occ = None /\ work_occ = None /\ working_map = None
    /\ need_prepare = FALSE /\ anchor_idx = {}
    /\ n \in NVals /\ kernel \in KernelVals /\ alpha \in AlphaVals
    /\ lc \in LcVals /\ ls \in LsVals /\ nb_radius \in NbRadiusVals
    /\ max_iters \in MaxItersVals /\ tol \in TolVals
    /\ malformed = {}
    /\ ca \in CaInitVals /\ ca_after_id = None /\ timers = {} /\ anchor_ca = None
    /\ lbl_iter = 0 /\ lbl_score = None
    /\ pending = <<>>
    /\ last = Quiet

\* ------------------------------------------------------------- actions
\* MapEnhancerWizard.select_folder: a folder with a readable map is chosen
select_folder_from(folders) ==
    \E m \in folders :
        /\ processed_map' = Some(m)
        /\ last' = Quiet
        /\ UNCHANGED <<ovars, pending>>

select_folder == select_folder_from(Maps)

\* the visible map is absent or a map as a folder holds it: the sessions the
\* model follows are generated and applied on such a map
AsLoaded ==
    IF processed_map = None THEN TRUE ELSE Val(processed_map) \in Maps \cup RegenMaps \cup CountMaps

\* Optimizer.generate, lines 148-157 and 165: what the call reports
generate_status(src, nv) ==
    LET pts == occupied_coords(src)
        N == clamp(nv, 2, Min2(MaxPoints, Cardinality(pts)))
    IN  IF src = None THEN "NoMapLoaded"
        ELSE IF pts = {} THEN "NoOccupiedCells"
        ELSE IF N > Cardinality(pts) THEN "raised"   \* cv2.kmeans: more clusters than samples
        ELSE "ok"

\* a generate that drops the pairs and the selection before it looks at the map
generate_ClearsFirst ==
    LET pts == occupied_coords(processed_map)
        N == clamp(n, 2, Min2(MaxPoints, Cardinality(pts)))
    IN  /\ AsLoaded
        /\ UNCHANGED <<processed_map, pending>>
        /\ last' = Quiet
        /\ IF generate_status(processed_map, n) # "ok"
           THEN Assign([Self EXCEPT !.pairs = <<>>, !.selected = None])
           ELSE \E lab \in KMeansLabels(pts, N) :
                \E conf \in AnchorOutcomes(N) : \E low \in StrideSlips(Cardinality(conf), N) :
                    LET centers == CentersOf(pts, N, lab, WidthOf(Val(processed_map)),
                                          HeightOf(Val(processed_map)))
                        s1 == [Self EXCEPT
                                 !.points = centers, !.init = centers, !.prev = centers,
                                 !.pairs = <<>>, !.selected = None, !.neighbors = None,
                                 !.last_score = None, !.kernels = <<>>,
                                 !.base_map = None, !.base_occ = None,
                                 !.work_occ = None, !.working_map = None,
                                 !.need_prepare = TRUE]
                    IN  Assign(assign_anchor_points(s1, processed_map,
                                                    SetToSortedSeq(conf), low))

\* a generate that keeps the score and the neighbour graph of the session it
\* replaces
generate_KeepsScore ==
    LET pts == occupied_coords(processed_map)
        N == clamp(n, 2, Min2(MaxPoints, Cardinality(pts)))
    IN  /\ AsLoaded
        /\ UNCHANGED <<processed_map, pending>>
        /\ last' = Quiet
        /\ IF generate_status(processed_map, n) # "ok"
           THEN UNCHANGED ovars
           ELSE \E lab \in KMeansLabels(pts, N) :
                \E conf \in AnchorOutcomes(N) : \E low \in StrideSlips(Cardinality(conf), N) :
                    LET centers == CentersOf(pts, N, lab, WidthOf(Val(processed_map)),
                                          HeightOf(Val(processed_map)))
                        s1 == [Self EXCEPT
                                 !.points = centers, !.init = centers, !.prev = centers,
                                 !.pairs = <<>>, !.selected = None,
                                 !.kernels = <<>>,
                                 !.base_map = None, !.base_occ = None,
                                 !.work_occ = None, !.working_map = None,
                                 !.need_prepare = TRUE]
                    IN  Assign(assign_anchor_points(s1, processed_map,
                                                    SetToSortedSeq(conf), low))

\* Optimizer.generate; traced tells whether the step reports how the call ended
generate_reporting(traced) ==
    LET pts == occupied_coords(processed_map)
        N == clamp(n, 2, Min2(MaxPoints, Cardinality(pts)))
    IN  /\ AsLoaded
        /\ UNCHANGED <<processed_map, pending>>
        /\ last' = IF traced THEN Report("generate", generate_status(processed_map, n))
                   ELSE Quiet
        /\ IF generate_status(processed_map, n) # "ok"
           THEN UNCHANGED ovars
           ELSE \E lab \in KMeansLabels(pts, N) :
                \E conf \in AnchorOutcomes(N) : \E low \in StrideSlips(Cardinality(conf), N) :
                    LET centers == CentersOf(pts, N, lab, WidthOf(Val(processed_map)),
                                          HeightOf(Val(processed_map)))
                        s1 == [Self EXCEPT
                                 !.points = centers, !.init = centers, !.prev = centers,
                                 !.pairs = <<>>, !.selected = None, !.neighbors = None,
                                 !.last_score = None, !.kernels = <<>>,
                                 !.base_map = None, !.base_occ = None,
                                 !.work_occ = None, !.working_map = None,
                                 !.need_prepare = TRUE]
                    IN  Assign(assign_anchor_points(s1, processed_map,
                                                    SetToSortedSeq(conf), low))

\* Optimizer.generate
generate == generate_reporting(FALSE)

\* Optimizer.clear_pairs
clear_pairs ==
    /\ Assign([Self EXCEPT !.pairs = <<>>, !.selected = None])
    /\ last' = Quiet
    /\ UNCHANGED <<processed_map, pending>>

\* list.remove(pair)
RemoveFirst(sq, x) ==
    LET at == CHOOSE t \in 1 .. Len(sq) : sq[t] = x /\ \A u \in 1 .. t - 1 : sq[u] # x
    IN  [t \in 1 .. Len(sq) - 1 |-> IF t < at THEN sq[t] ELSE sq[t + 1]]

InSeq(sq, x) == \E t \in 1 .. Len(sq) : sq[t] = x

\* a toggle that stores the pair as clicked, (i, j) and (j, i) being two pairs
TogglePair_AsClicked(prs, i, j) ==
    IF i = j THEN prs
    ELSE IF InSeq(prs, <<i, j>>) THEN RemoveFirst(prs, <<i, j>>)
    ELSE Append(prs, <<i, j>>)

\* a toggle that adds an absent pair and leaves a present one
TogglePair_NeverRemoves(prs, i, j) ==
    IF i = j \/ InSeq(prs, <<Min2(i, j), Max2(i, j)>>) THEN prs
    ELSE Append(prs, <<Min2(i, j), Max2(i, j)>>)

\* Optimizer.on_canvas_click, lines 618-625: the second click of a pair
TogglePair(prs, i, j) ==
    IF i = j THEN prs
    ELSE IF InSeq(prs, <<Min2(i, j), Max2(i, j)>>)
    THEN RemoveFirst(prs, <<Min2(i, j), Max2(i, j)>>)
    ELSE Append(prs, <<Min2(i, j), Max2(i, j)>>)

\* Optimizer.on_canvas_click on the Optimization tab in the enhanced preview;
\* best is the control point the click hits
on_canvas_click ==
    /\ points # <<>>
    /\ processed_map # None
    /\ \E best \in 1 .. Len(points) :
          IF selected = None
          THEN Assign([Self EXCEPT !.selected = Some(best)])
          ELSE Assign([Self EXCEPT
                  !.pairs = TogglePair(pairs, Val(selected), best),
                  !.selected = None])
    /\ last' = Quiet
    /\ UNCHANGED <<processed_map, pending>>

\* Optimizer.on_canvas_double_click
on_canvas_double_click ==
    /\ points # <<>>
    /\ processed_map # None
    /\ \E best \in 1 .. Len(points) :
          Assign([Self EXCEPT
             !.pairs = SelectSeq(pairs, LAMBDA p : p[1] # best /\ p[2] # best),
             !.selected = IF selected = Some(best) THEN None ELSE selected])
    /\ last' = Quiet
    /\ UNCHANGED <<processed_map, pending>>

\* a write to one of the Tk variables traced by Optimizer.bind_param_traces
ParamVals(f) ==
    CASE f = "kernel" -> KernelVals
      [] f = "alpha" -> AlphaVals
      [] f = "lc" -> LcVals
      [] f = "ls" -> LsVals
      [] f = "nb_radius" -> NbRadiusVals
      [] f = "max_iters" -> MaxItersVals
      [] f = "tol" -> TolVals

\* the variables Optimizer.bind_param_traces traces
TracedNames == {"kernel", "alpha", "lc", "ls", "nb_radius", "max_iters", "tol"}

\* a write that also drops the neighbour graph and the kernels
mark_dirty_DropsGraph(vals) ==
    /\ \E f \in TracedNames :
       \E v \in vals[f] :
          Assign([Self EXCEPT ![f] = v, !.malformed = @ \ {f}, !.need_prepare = TRUE,
                              !.neighbors = None, !.kernels = <<>>])
    /\ last' = Quiet
    /\ UNCHANGED <<processed_map, pending>>

\* a number from vals is written to a traced variable: mark_dirty runs
mark_dirty_on(vals) ==
    /\ \E f \in TracedNames :
       \E v \in vals[f] :
          Assign([Self EXCEPT ![f] = v, !.malformed = @ \ {f}, !.need_prepare = TRUE])
    /\ last' = Quiet
    /\ UNCHANGED <<processed_map, pending>>

mark_dirty == mark_dirty_on([f \in TracedNames |-> ParamVals(f)])

\* a write to the point-count entry, which has no trace
set_n_over(vals) ==
    /\ \E v \in vals : Assign([Self EXCEPT !.n = v])
    /\ last' = Quiet
    /\ UNCHANGED <<processed_map, pending>>

set_n == set_n_over(NVals)

\* Optimizer._rebuild_anchors_if_any with the confirmed control points drawn
\* from outcomes; traced tells whether the step reports what was confirmed
rebuild_anchors_over(outcomes, traced) ==
    /\ IF points # <<>>
       THEN \E conf \in outcomes : \E low \in StrideSlips(Cardinality(conf), Len(points)) :
               /\ Assign(assign_anchor_points(Self, processed_map, SetToSortedSeq(conf), low))
               /\ last' = IF traced THEN Report("rebuild_anchors", conf) ELSE Quiet
       ELSE UNCHANGED ovars /\ last' = Quiet
    /\ UNCHANGED <<processed_map, pending>>

\* Optimizer._rebuild_anchors_if_any ("Rebuild Anchors Now")
rebuild_anchors == rebuild_anchors_over(AnchorOutcomes(Len(points)), FALSE)

\* Optimizer.step_once
step_once ==
    /\ UNCHANGED <<processed_map, pending>>
    /\ IF points = <<>>
       THEN /\ last' = Quiet
            /\ UNCHANGED ovars
       ELSE \E pr \in {IF last_score = None \/ need_prepare
                        THEN prepare(Self, processed_map)
                        ELSE [ok |-> TRUE, res |-> "ok", s |-> Self]} :
                IF ~pr.ok
                THEN /\ last' = PrepareReport("step_once", pr)
                     /\ Assign(pr.s)
                ELSE \E it \in {iterate_once(pr.s, processed_map)} :
                         /\ it.s.lbl_iter < MaxIterLabel
                         /\ last' = IterReport("step_once", it)
                         /\ Assign(IF it.raised THEN it.s
                                   ELSE [it.s EXCEPT !.lbl_score = it.new_score,
                                                     !.lbl_iter = it.s.lbl_iter + 1])

\* a start that sets running before it prepares
start_RunsFirst(cap) ==
    /\ UNCHANGED processed_map
    /\ Len(pending) < cap
    /\ \E pr \in {IF last_score = None \/ need_prepare
                   THEN prepare(Self, processed_map)
                   ELSE [ok |-> TRUE, res |-> "ok", s |-> Self]} :
           IF ~pr.ok
           THEN /\ last' = PrepareReport("start", pr)
                /\ Assign([pr.s EXCEPT !.running = TRUE])
                /\ UNCHANGED pending
           ELSE IF "max_iters" \in pr.s.malformed
           THEN /\ last' = Report("start", "raised")
                /\ Assign([pr.s EXCEPT !.running = TRUE])
                /\ UNCHANGED pending
           ELSE \E r \in {loop_tick([pr.s EXCEPT !.running = TRUE], processed_map,
                                    pr.s.max_iters, "start")} :
                    /\ r.s.lbl_iter <= MaxIterLabel
                    /\ last' = r.rep
                    /\ Assign(r.s)
                    /\ pending' = pending \o r.sched

\* Optimizer.start, while fewer than cap ticks are queued
start_upto(cap) ==
    /\ UNCHANGED processed_map
    /\ Len(pending) < cap
    /\ \E pr \in {IF last_score = None \/ need_prepare
                   THEN prepare(Self, processed_map)
                   ELSE [ok |-> TRUE, res |-> "ok", s |-> Self]} :
           IF ~pr.ok
           THEN /\ last' = PrepareReport("start", pr)
                /\ Assign(pr.s)
                /\ UNCHANGED pending
           ELSE IF "max_iters" \in pr.s.malformed
           THEN /\ last' = Report("start", "raised")
                /\ Assign([pr.s EXCEPT !.running = TRUE])
                /\ UNCHANGED pending
           ELSE \E r \in {loop_tick([pr.s EXCEPT !.running = TRUE], processed_map,
                                    pr.s.max_iters, "start")} :
                    /\ r.s.lbl_iter <= MaxIterLabel
                    /\ last' = r.rep
                    /\ Assign(r.s)
                    /\ pending' = pending \o r.sched

start == start_upto(MaxPending)

\* the Tk event loop runs the oldest queued loop_tick callback
tick ==
    /\ pending # <<>>
    /\ UNCHANGED processed_map
    /\ \E r \in {loop_tick(Self, processed_map, Head(pending), "loop_tick")} :
           /\ r.s.lbl_iter <= MaxIterLabel
           /\ last' = r.rep
           /\ Assign(r.s)
           /\ pending' = Tail(pending) \o r.sched

\* Optimizer.stop ("Stop")
stop_button ==
    /\ Assign(stop(Self))
    /\ last' = Quiet
    /\ UNCHANGED <<processed_map, pending>>

\* Optimizer.apply ("Apply to Enhanced")
apply ==
    /\ AsLoaded
    /\ UNCHANGED pending
    /\ IF working_map = None
       THEN /\ last' = Quiet
            /\ UNCHANGED <<processed_map, ovars>>
       ELSE /\ processed_map' = working_map
            /\ Assign(reset_state(Self))
            /\ last' = Quiet

\* a revert that restores the grid and leaves the points where they are
revert_KeepsPoints ==
    /\ UNCHANGED <<processed_map, pending>>
    /\ IF base_map = None
       THEN /\ last' = Quiet
            /\ UNCHANGED ovars
       ELSE /\ Assign([Self EXCEPT
                 !.work_occ = base_occ,
                 !.working_map = refresh_working_map_from_occ(base_occ),
                 !.last_score = None,
                 !.lbl_iter = 0,
                 !.lbl_score = None])
            /\ last' = Quiet

\* Optimizer.revert
revert ==
    /\ UNCHANGED <<processed_map, pending>>
    /\ IF base_map = None
       THEN /\ last' = Quiet
            /\ UNCHANGED ovars
       ELSE /\ Assign([Self EXCEPT
                 !.work_occ = base_occ,
                 !.working_map = refresh_working_map_from_occ(base_occ),
                 !.points = init,
                 !.prev = init,
                 !.last_score = None,
                 !.lbl_iter = 0,
                 !.lbl_score = None])
            /\ last' = Quiet

Next ==
    \/ select_folder
    \/ generate
    \/ clear_pairs
    \/ on_canvas_click
    \/ on_canvas_double_click
    \/ mark_dirty
    \/ set_n
    \/ rebuild_anchors
    \/ step_once
    \/ start
    \/ tick
    \/ stop_button
    \/ apply
    \/ revert

Spec == Init /\ [][Next]_vars

\* ---------------------------------------------------------------- claims
\* an iteration handler has just run an iteration to its end
Iterated(rep) == rep.res \in {"accepted", "rejected"}

\* the handler of the iteration prepares before it iterates
PreparesFirst ==
    last'.op \in {"step_once", "start"} /\ (last_score = None \/ need_prepare)

\* lastScore as the iteration of a handler finds it: step_once and start
\* prepare first when the score is unset or a parameter changed
ScoreBefore ==
    IF PreparesFirst
    THEN Some(score(points, pairs))
    ELSE last_score

C2_AnchorsFixed ==
    [][last'.res \in {"accepted", "rejected", "raised"} =>
         \A a \in anchor_idx :
            a \in 1 .. Len(points) => points'[a] = points[a]]_vars

\* an accepted iteration moved the free end of a pair whose other end is an
\* anchor
C2_Witness ==
    /\ last.res = "accepted"
    /\ anchor_idx = {1}
    /\ InSeq(pairs, <<1, 2>>)
    /\ points[1] = init[1]
    /\ points[2] # init[2]

\* the session holds a working grid
Prepared == work_occ # None /\ base_occ # None /\ kernels # <<>>

\* the control points whose footprint at its current position covers cell c
Covering(c) ==
    {t \in 1 .. Min2(Len(points), Len(kernels)) :
        InFootprint(c, points[t], kernels[t].k,
                    WidthOf(Val(work_occ)), HeightOf(Val(work_occ)))}

\* the value the kernel of point t has for cell c at the point's position
KernelValueAt(t, c) ==
    LET r == kernels[t].k \div 2
    IN  kernels[t].a[<<c[1] - (PyRound(points[t][1]) - r),
                       c[2] - (PyRound(points[t][2]) - r)>>]

\* the highest index wins where footprints overlap
TopKernelValue(c) ==
    KernelValueAt(CHOOSE t \in Covering(c) : \A u \in Covering(c) : u <= t, c)

\* C3 as stated: the working grid is the base grid with the kernels written
\* at the points' current positions, every other cell being the base's.
C3_Original ==
    Prepared =>
       \A c \in DOMAIN Val(work_occ) :
          Val(work_occ)[c] = IF Covering(c) = {} THEN Val(base_occ)[c]
                             ELSE TopKernelValue(c)

\* C3: inside the current footprints the working grid holds the kernels
\* (later index winning); a cell outside them holds the base's value or is
\* free, erased by a footprint that has moved away.
C3_Composed ==
    Prepared =>
       \A c \in DOMAIN Val(work_occ) :
          IF Covering(c) = {}
          THEN Val(work_occ)[c] \in {Val(base_occ)[c], 0}
          ELSE Val(work_occ)[c] = TopKernelValue(c)

\* a cell occupied in the base grid lies outside every current footprint and
\* is free in the working grid
C3_Witness ==
    /\ Prepared
    /\ points # init
    /\ \E c \in DOMAIN Val(work_occ) :
          /\ Covering(c) = {}
          /\ Val(base_occ)[c] = 1
          /\ Val(work_occ)[c] = 0

\* C4 as stated: with an empty pair set no iteration is rejected.
C4_Original ==
    (Iterated(last) /\ pairs = <<>>) => last.res = "accepted"

\* C4: with an empty pair set the score is 0; the iteration that follows a
\* prepare is rejected, prepare having set lastScore to 0; an iteration is
\* accepted only when lastScore is unset or is a score above the tolerance
\* left from pairs cleared since.
C4_EmptyPairs ==
    [][(Iterated(last') /\ pairs = <<>>) =>
         /\ score(points, pairs) = 0
         /\ lbl_score' = Some(0)
         /\ PreparesFirst => last'.res = "rejected"
         /\ (last'.res = "accepted") =>
               \/ (last'.op = "loop_tick" /\ last_score = None)
               \/ (~PreparesFirst /\ last_score # None /\ Val(last_score) > tol)]_vars

\* step_once prepared and its iteration was rejected with no pair defined
C4_Witness ==
    /\ last = Report("step_once", "rejected")
    /\ pairs = <<>>
    /\ lbl_iter = 1
    /\ last_score = Some(0)

\* C5: revert on a session that has a base grid leaves the working grid equal
\* to the frozen base grid, the points at their initial positions, the score
\* unset and the iteration counter at 0.
C5_RevertRoundTrip ==
    [][(revert /\ base_map # None) =>
         /\ work_occ' = base_occ
         /\ base_occ' = base_occ
         /\ base_occ = Some(OccOf(Val(base_map)))
         /\ working_map' = refresh_working_map_from_occ(base_occ)
         /\ points' = init
         /\ init' = init
         /\ last_score' = None
         /\ lbl_iter' = 0]_vars

\* revert ran during a run whose last iteration was accepted
C5_Witness ==
    /\ base_map # None
    /\ last_score = None
    /\ work_occ = base_occ
    /\ points = init
    /\ lbl_iter = 0
    /\ running
    /\ pending # <<>>

C7_Original ==
    running =>
       /\ pending # <<>>
       /\ \A t \in 1 .. Len(pending) : pending[t] < max_iters

\* C8 as stated: an iteration that starts with a parameter changed since the
\* last prepare re-prepares first, so the flag is cleared and the neighbor
\* graph is the one of the positions the iteration started from.
C8_Original ==
    [][(Iterated(last') /\ need_prepare) =>
         /\ ~need_prepare'
         /\ neighbors' = Some(build_neighbors(points, nb_radius))]_vars

\* C9: while the session holds a working grid there is one kernel per
\* control point, and kernel t is the patch of the base grid at the position
\* control point t had when prepare ran.
C9_KernelPerPoint ==
    work_occ # None =>
       /\ base_occ # None
       /\ Len(kernels) = Len(points)
       /\ Len(init) = Len(points)
       /\ \A t \in 1 .. Len(kernels) :
             kernels[t] = extract_kernel_at(Val(base_occ), init[t][1], init[t][2],
                                            kernels[t].k)

\* a prepared session after an accepted iteration, stopped, and one after
\* revert are both covered; this is the first: points moved, driver stopped
C9_Witness ==
    /\ work_occ # None
    /\ points # init
    /\ ~running
    /\ Len(kernels) = 2

\* C10: generate with no map loaded, or on a map with no occupied cell,
\* reports it and changes no field of the session.
C10_GenerateRefused ==
    [][(generate /\ (processed_map = None \/ occupied_coords(processed_map) = {})) =>
         /\ generate_status(processed_map, n) =
               (IF processed_map = None THEN "NoMapLoaded" ELSE "NoOccupiedCells")
         /\ UNCHANGED <<processed_map, ovars, pending>>]_vars

\* a session with points, a pair and a working grid, while the visible map
\* has no occupied cell
C10_Witness ==
    /\ processed_map # None
    /\ occupied_coords(processed_map) = {}
    /\ points # <<>>
    /\ pairs # <<>>
    /\ work_occ # None

\* C11: apply with a working grid makes the visible grid the working grid and
\* leaves the session empty and stopped; apply with no working grid changes
\* neither the visible grid nor the session.
C11_ApplyBakes ==
    [][apply =>
         IF working_map = None
         THEN UNCHANGED <<processed_map, ovars, pending>>
         ELSE /\ processed_map' = working_map
              /\ working_map = refresh_working_map_from_occ(work_occ)
              /\ points' = <<>> /\ init' = <<>> /\ prev' = <<>>
              /\ pairs' = <<>> /\ kernels' = <<>> /\ anchor_idx' = {}
              /\ neighbors' = None /\ base_map' = None /\ base_occ' = None
              /\ work_occ' = None /\ working_map' = None
              /\ last_score' = None /\ ~running']_vars

\* the visible grid is a baked working grid that differs from every map a
\* folder holds, and the session is empty
C11_Witness ==
    /\ processed_map # None
    /\ ~AsLoaded
    /\ points = <<>>
    /\ working_map = None
    /\ ~running

\* C12: a rejected iteration leaves points, previousPositions, lastScore and
\* the working grid as it found them (as the prepare of the same handler left
\* them, when the handler prepared first), and the counter goes up by one.
C12_RejectedFrame ==
    [][last'.res = "rejected" =>
         /\ points' = points
         /\ prev' = prev
         /\ IF PreparesFirst
            THEN /\ last_score' = Some(score(points, pairs))
                 /\ work_occ' = Some(OccOf(Val(processed_map)))
                 /\ lbl_iter' = 1
            ELSE /\ last_score' = last_score
                 /\ work_occ' = work_occ
                 /\ lbl_iter' = lbl_iter + 1]_vars

\* a tick of a run was rejected after an earlier iteration had moved the
\* points: the counter shows both iterations
C12_Witness ==
    /\ last = Report("loop_tick", "rejected")
    /\ points # init
    /\ lbl_iter = 2
    /\ ~running

\* the pairs as a set
PairSet(prs) == {prs[t] : t \in 1 .. Len(prs)}

\* C13: every pair joins two distinct valid point indices, no pair is held
\* twice in either order, and a successful generate and an apply that bakes
\* leave no pair.
C13_PairsValid ==
    /\ [](\A t \in 1 .. Len(pairs) :
            /\ pairs[t][1] # pairs[t][2]
            /\ pairs[t][1] \in 1 .. Len(points)
            /\ pairs[t][2] \in 1 .. Len(points)
            /\ \A u \in 1 .. Len(pairs) :
                  u # t => /\ pairs[u] # pairs[t]
                           /\ pairs[u] # <<pairs[t][2], pairs[t][1]>>)
    /\ [][((generate /\ generate_status(processed_map, n) = "ok")
           \/ (apply /\ working_map # None)) => pairs' = <<>>]_vars

\* a pair is defined and its second endpoint is selected again, about to be
\* clicked in the other order
C13_Witness ==
    /\ pairs = <<<<1, 2>>>>
    /\ selected = Some(2)

\* ------------------------------------------------- pairs of four points
\* the control points generate leaves on MapCorners when four are asked for:
\* every obstacle is the centre of its own cluster
CornerPoints ==
    <<<<0, 0>>, <<(W - 1) * Q, 0>>, <<0, (H - 1) * Q>>, <<(W - 1) * Q, (H - 1) * Q>>>>

\* the session generate leaves on MapCorners, no control point confirmed as anchor
PairInit ==
    /\ processed_map = Some(MapCorners)
    /\ points = CornerPoints /\ init = CornerPoints /\ prev = CornerPoints
    /\ pairs = <<>>
    /\ selected = None /\ running = FALSE /\ last_score = None
    /\ neighbors = None /\ kernels = <<>>
    /\ base_map = None /\ base_occ = None /\ work_occ = None /\ working_map = None
    /\ need_prepare = TRUE /\ anchor_idx = {}
    /\ n = Len(CornerPoints) /\ kernel \in KernelVals /\ alpha \in AlphaVals
    /\ lc \in LcVals /\ ls \in LsVals /\ nb_radius \in NbRadiusVals
    /\ max_iters \in MaxItersVals /\ tol \in TolVals
    /\ malformed = {}
    /\ ca \in CaInitVals /\ ca_after_id = None /\ timers = {} /\ anchor_ca = None
    /\ lbl_iter = 0 /\ lbl_score = None
    /\ pending = <<>>
    /\ last = Quiet

\* the clicks on the canvas and the Clear Pairs button
PairNext == on_canvas_click \/ on_canvas_double_click \/ clear_pairs

PairSpec == PairInit /\ [][PairNext]_vars

\* the two click orders of the endpoints i, j
Orders(i, j) == {<<i, j>>, <<j, i>>}

\* C14: the first click selects a point and the second toggles the pair of the
\* selected and the clicked point; toggling a pair twice, each time in either
\* endpoint order, gives back the set of pairs there was, the pair present or
\* absent at first.
C14_DoubleToggle ==
    /\ [](\A i, j \in 1 .. Len(points) :
            \A o1, o2 \in Orders(i, j) :
               PairSet(TogglePair(TogglePair(pairs, o1[1], o1[2]), o2[1], o2[2]))
                  = PairSet(pairs))
    /\ [][on_canvas_click =>
            IF selected = None
            THEN pairs' = pairs /\ selected' # None
            ELSE /\ selected' = None
                 /\ \E best \in 1 .. Len(points) :
                       pairs' = TogglePair(pairs, Val(selected), best)]_vars

\* a pair that is present and not the last of the list is about to be toggled
\* with its endpoints clicked in the other order: removing it and adding it
\* again moves it to the end of the list
C14_Witness ==
    /\ Len(pairs) = 3
    /\ pairs[1] = <<1, 2>>
    /\ selected = Some(2)

\* ------------------------------------- sessions of two to four points
\* four control points are asked for: the number of obstacles of the map
\* decides how many there are
RegenInit ==
    /\ processed_map = None
    /\ points = <<>> /\ init = <<>> /\ prev = <<>> /\ pairs = <<>>
    /\ selected = None /\ running = FALSE /\ last_score = None
    /\ neighbors = None /\ kernels = <<>>
    /\ base_map = None /\ base_occ = None /\ work_occ = None /\ working_map = None
    /\ need_prepare = FALSE /\ anchor_idx = {}
    /\ n = Len(CornerPoints) /\ kernel \in KernelVals /\ alpha \in AlphaVals
    /\ lc \in LcVals /\ ls \in LsVals /\ nb_radius \in NbRadiusVals
    /\ max_iters \in MaxItersVals /\ tol \in TolVals
    /\ malformed = {}
    /\ ca \in CaInitVals /\ ca_after_id = None /\ timers = {} /\ anchor_ca = None
    /\ lbl_iter = 0 /\ lbl_score = None
    /\ pending = <<>>
    /\ last = Quiet

select_regen_folder == select_folder_from(RegenMaps)

RegenNext ==
    \/ select_regen_folder
    \/ generate
    \/ rebuild_anchors
    \/ step_once
    \/ revert
    \/ apply

RegenSpec == RegenInit /\ [][RegenNext]_vars

\* C15: every anchor is an index of the current point list, also after
\* generate has made a list of another length and after apply has emptied it.
C15_AnchorsValid == anchor_idx \subseteq 1 .. Len(points)

\* a session that had iterated was replaced by a generated one of two points,
\* the first of them anchored
C15_Witness ==
    /\ Len(points) = 2
    /\ anchor_idx = {1}
    /\ processed_map = Some(MapA)
    /\ lbl_iter = 1
    /\ last_score = None

\* C20 as stated: every control point lies within the bounds of the grid.
C20_Original ==
    processed_map # None =>
       \A i \in 1 .. Len(points) :
          /\ 0 <= points[i][1] /\ points[i][1] <= (WidthOf(Val(processed_map)) - 1) * Q
          /\ 0 <= points[i][2] /\ points[i][2] <= (HeightOf(Val(processed_map)) - 1) * Q

\* C16: a successful generate starts a new session whatever the old one was:
\* no pairs, no neighbour graph, no kernels, no base and no working grid, no
\* score, the re-prepare flag set, initial and previous positions equal to the
\* new points, and the anchors those computed for the new points.
C16_GenerateStartsSession ==
    [][(generate /\ generate_status(processed_map, n) = "ok") =>
         /\ points' # <<>>
         /\ init' = points' /\ prev' = points'
         /\ pairs' = <<>> /\ neighbors' = None /\ kernels' = <<>>
         /\ base_map' = None /\ base_occ' = None
         /\ work_occ' = None /\ working_map' = None
         /\ last_score' = None /\ need_prepare'
         /\ \E conf \in AnchorOutcomes(Len(points')) : \E low \in StrideSlips(Cardinality(conf), Len(points')) :
               anchor_idx' = assign_anchor_points([Self EXCEPT !.points = points'],
                                                  processed_map,
                                                  SetToSortedSeq(conf), low).anchor_idx]_vars

\* a new session whose labels still show the iteration and the score of the
\* session it replaced
C16_Witness ==
    /\ points # <<>> /\ init = points /\ prev = points
    /\ last_score = None /\ need_prepare
    /\ working_map = None /\ kernels = <<>>
    /\ lbl_iter = 2 /\ lbl_score # None

\* C17: prepare without a map fails with NoMapLoaded and without control
\* points with NoControlPoints, and hands back the session as it was; a
\* step_once or start that has to prepare then changes no field of the session,
\* runs no iteration, queues no tick and does not set running.
C17_PrepareFails ==
    /\ [](/\ processed_map = None =>
               prepare(Self, processed_map)
                  = [ok |-> FALSE, res |-> "NoMapLoaded", s |-> Self]
          /\ (processed_map # None /\ points = <<>>) =>
               prepare(Self, processed_map)
                  = [ok |-> FALSE, res |-> "NoControlPoints", s |-> Self])
    /\ [][((last_score = None \/ need_prepare)
             /\ (processed_map = None \/ points = <<>>)
             /\ (start \/ step_once)) =>
            /\ UNCHANGED <<ovars, pending, processed_map>>
            /\ ~Iterated(last')]_vars

\* a map is loaded and the session has been emptied by apply, the labels still
\* showing its last iteration: start and step_once find no control points
C17_Witness ==
    /\ processed_map # None
    /\ points = <<>>
    /\ last_score = None
    /\ lbl_score # None
    /\ ~running

\* ------------------------------------------- parameters typed by the user
\* the entries a text that is no number is typed into
TypedNames == {"kernel", "lc"}

\* a text that is no number is typed into the entry of a traced variable: the
\* write runs mark_dirty, and get() raises until a number is written
type_text ==
    /\ \E f \in TypedNames :
          Assign([Self EXCEPT !.malformed = @ \cup {f}, !.need_prepare = TRUE])
    /\ last' = Quiet
    /\ UNCHANGED <<processed_map, pending>>

\* the numbers typed into the entries: an even kernel size and a second
\* tolerance beside the values of ParamVals
TypedVals ==
    [f \in TracedNames |->
        IF f = "kernel" THEN {3, 4} ELSE IF f = "tol" THEN {0, 1} ELSE ParamVals(f)]

type_number == mark_dirty_on(TypedVals)

ParamNext ==
    \/ select_folder
    \/ generate
    \/ step_once
    \/ start
    \/ type_number
    \/ type_text

ParamSpec == Init /\ [][ParamNext]_vars

\* C18: a write to an optimization parameter only sets the re-prepare flag:
\* kernels, neighbour graph, points, previous and initial positions, working
\* and base grid and lastScore are what they were.
C18_ParamChangeFrame ==
    [][(type_number \/ type_text) =>
         /\ need_prepare'
         /\ UNCHANGED <<kernels, neighbors, points, prev, init, work_occ, working_map,
                        base_map, base_occ, last_score, pairs, anchor_idx, running,
                        processed_map, pending>>]_vars

\* an even kernel size has been typed into a prepared session: the kernels
\* still have the size they were captured with
C18_Witness ==
    /\ need_prepare
    /\ kernels # <<>>
    /\ kernels[1].k # kernel
    /\ neighbors # None
    /\ last_score # None

\* C19 as stated: with a text that is no number in a parameter, step_once and
\* start complete, no failure reaching prepare, the forces or the iteration.
C19_Original ==
    (malformed # {} /\ last.op \in {"step_once", "start"}) => last.res # "raised"

\* ------------------------------------------- corner-anchor parameters
\* the identifiers app.after hands out for the rebuild timers
TimerIds == {1, 2, 3}

\* app.after: an identifier no timer holds and _ca_after_id does not name
NewTimerId(s) ==
    CHOOSE id \in TimerIds \ (s.timers \cup {s.ca_after_id[t] : t \in DOMAIN s.ca_after_id}) :
        \A o \in TimerIds \ (s.timers \cup {s.ca_after_id[t] : t \in DOMAIN s.ca_after_id}) :
            id <= o

\* a change handler that asks for a new timer and cancels none
rebuild_on_change_NoCancel ==
    /\ TimerIds \ (timers \cup {ca_after_id[t] : t \in DOMAIN ca_after_id}) # {}
    /\ \E v \in CaVals :
          Assign([Self EXCEPT !.ca = v,
                              !.timers = @ \cup {NewTimerId(Self)},
                              !.ca_after_id = Some(NewTimerId(Self))])
    /\ last' = Quiet
    /\ UNCHANGED <<processed_map, pending>>

\* Optimizer.__init__._rebuild_on_change: a corner-anchor parameter is written
rebuild_on_change ==
    /\ TimerIds \ (timers \cup {ca_after_id[t] : t \in DOMAIN ca_after_id}) # {}
    /\ \E v \in CaVals :
          Assign([Self EXCEPT !.ca = v,
                              !.timers = (@ \ {ca_after_id[t] : t \in DOMAIN ca_after_id})
                                            \cup {NewTimerId(Self)},
                              !.ca_after_id = Some(NewTimerId(Self))])
    /\ last' = Quiet
    /\ UNCHANGED <<processed_map, pending>>

\* the Tk event loop runs a rebuild timer: Optimizer._rebuild_anchors_if_any
rebuild_timer ==
    /\ \E id \in timers :
          IF points # <<>>
          THEN \E conf \in AnchorOutcomes(Len(points)) : \E low \in StrideSlips(Cardinality(conf), Len(points)) :
                  Assign(assign_anchor_points([Self EXCEPT !.timers = @ \ {id}],
                                              processed_map, SetToSortedSeq(conf), low))
          ELSE Assign([Self EXCEPT !.timers = @ \ {id}])
    /\ last' = Quiet
    /\ UNCHANGED <<processed_map, pending>>

CaNext ==
    \/ select_folder
    \/ generate
    \/ rebuild_on_change
    \/ rebuild_timer
    \/ rebuild_anchors
    \/ step_once
    \/ apply

\* the event loop runs a timer that is due
CaSpec == Init /\ [][CaNext]_vars /\ WF_vars(rebuild_timer)

\* C21: at most one rebuild is pending; a pending rebuild with control points
\* leads to a state with no rebuild pending where the anchors are those
\* detected with the latest corner parameters (or the points are gone); the
\* rebuild ends with a set of valid anchors, the empty one when nothing is
\* confirmed, and reports no error.
C21_AnchorsRebuilt ==
    /\ [](Cardinality(timers) <= 1)
    /\ (timers # {} /\ points # <<>>)
          ~> (points = <<>> \/ (timers = {} /\ anchor_ca = Some(ca)))
    /\ [][(rebuild_timer /\ points # <<>>) =>
            /\ anchor_ca' = Some(ca)
            /\ anchor_idx' \subseteq 1 .. Len(points)
            /\ last' = Quiet]_vars

\* no rebuild is pending and the anchors were detected with parameters typed
\* after the optimizer was built
C21_Witness ==
    /\ timers = {}
    /\ ca_after_id # None
    /\ ca \notin CaInitVals
    /\ anchor_ca = Some(ca)
    /\ anchor_idx # {}

\* |a - b|
Dist(a, b) == IF a >= b THEN a - b ELSE b - a

\* cell c lies in the k x k window centred at the rounded position
InWindow(c, pos, k) ==
    /\ Dist(c[1], PyRound(pos[1])) <= k \div 2
    /\ Dist(c[2], PyRound(pos[2])) <= k \div 2

\* the kernels (of those that have a position) whose window at pos[t] holds c
WindowsAt(c, pos, ks) ==
    {t \in 1 .. Min2(Len(pos), Len(ks)) : InWindow(c, pos[t], ks[t].k)}

\* what the composition is to give: the kernel of the largest index whose new
\* window holds the cell, else free inside an old window, else the grid's cell
ComposedCell(c, grid, pp, np, ks) ==
    IF WindowsAt(c, np, ks) # {}
    THEN LET t == CHOOSE t \in WindowsAt(c, np, ks) :
                     \A u \in WindowsAt(c, np, ks) : u <= t
         IN  ks[t].a[<<c[1] - PyRound(np[t][1]) + ks[t].k \div 2,
                       c[2] - PyRound(np[t][2]) + ks[t].k \div 2>>]
    ELSE IF WindowsAt(c, pp, ks) # {} THEN 0
    ELSE grid[c]

\* C22: the grid an accepted iteration composes is, cell by cell of the input
\* grid, the kernel of the largest index whose window at its new position
\* holds the cell, else free where a window at a previous position holds it,
\* else the input's cell; the cells of a window outside the grid are dropped,
\* and the kernels and the base occupancy are left as they were.
C22_ComposeResult ==
    [][last'.res = "accepted" =>
         LET grid == IF PreparesFirst THEN OccOf(Val(processed_map)) ELSE Val(work_occ)
             pp == IF PreparesFirst THEN points ELSE prev
         IN  /\ work_occ' = Some([c \in DOMAIN grid |->
                                     ComposedCell(c, grid, pp, points', kernels')])
             /\ ~PreparesFirst => (kernels' = kernels /\ base_occ' = base_occ)]_vars

\* an accepted iteration has left a cell in the windows of both kernels, which
\* differ there, and the working grid differs from the base occupancy
C22_Witness ==
    /\ last.res = "accepted"
    /\ work_occ # base_occ
    /\ \E c \in DOMAIN Val(work_occ) :
          /\ Covering(c) = {1, 2}
          /\ KernelValueAt(1, c) # KernelValueAt(2, c)

\* C23 as stated: a tick of a run that iterates finds a prepared session, a
\* working grid and one kernel per control point.
C23_Original ==
    [][(tick /\ running /\ Head(pending) > 0) =>
         /\ work_occ # None
         /\ Len(kernels) = Len(points)]_vars

\* ------------------------------------------------------ runs and ticks
\* Start is pressed while a tick is queued
start_again == start_upto(MaxPending + 1)

RunNext ==
    \/ select_folder
    \/ generate
    \/ on_canvas_click
    \/ start_again
    \/ tick
    \/ stop_button

RunSpec == Init /\ [][RunNext]_vars

\* C24 as stated: at most one tick of a continuous run is pending.
C24_Original == Len(pending) <= 1

\* -------------------------------------------------------- kernel sizes
\* the kernel sizes typed: even, below KernelMin and above KernelMax
KernelTyped ==
    [f \in TracedNames |->
        IF f = "kernel" THEN {0, 3, 4, KernelMax + 1} ELSE ParamVals(f)]

type_kernel == mark_dirty_on(KernelTyped)

KernelNext ==
    \/ select_folder
    \/ generate
    \/ type_kernel
    \/ step_once

KernelSpec == Init /\ [][KernelNext]_vars

\* the configured kernel size made odd, then brought into [KernelMin, KernelMax]
OddClamped(size) ==
    LET odd == IF size % 2 = 0 THEN size + 1 ELSE size
    IN  IF odd < KernelMin THEN KernelMin ELSE IF odd > KernelMax THEN KernelMax ELSE odd

\* C25: a prepare that succeeds captures one kernel per control point, k x k
\* with k the configured size made odd and clamped to [3, 99]; kernel cell
\* <<kx, ky>> is the base occupancy at the rounded position of the point
\* shifted by <<kx, ky>> - k div 2 when that cell is in the grid, and free
\* otherwise.
C25_KernelCapture ==
    [][(/\ last'.op \in {"step_once", "start"}
        /\ (last_score = None \/ need_prepare)
        /\ "kernel" \notin malformed /\ "nb_radius" \notin malformed) =>
         LET k == OddClamped(kernel)
         IN  /\ k % 2 = 1 /\ KernelMin <= k /\ k <= KernelMax
             /\ kernel' = k
             /\ base_occ' = Some(OccOf(Val(processed_map)))
             /\ Len(kernels') = Len(points)
             /\ \A t \in 1 .. Len(points) :
                   /\ kernels'[t].k = k
                   /\ DOMAIN kernels'[t].a = (0 .. k - 1) \X (0 .. k - 1)
                   /\ \A kc \in DOMAIN kernels'[t].a :
                         LET c == <<PyRound(points[t][1]) - k \div 2 + kc[1],
                                    PyRound(points[t][2]) - k \div 2 + kc[2]>>
                         IN  kernels'[t].a[kc] = IF c \in DOMAIN Val(processed_map)
                                                 THEN Val(base_occ')[c] ELSE 0]_vars

\* kernels of the largest size, captured after a size above it was typed: most
\* of their window lies outside the grid, and an obstacle lies inside
C25_Witness ==
    /\ kernels # <<>>
    /\ kernels[1].k = KernelMax
    /\ kernel = KernelMax
    /\ \E kc \in DOMAIN kernels[1].a : kernels[1].a[kc] = 1
    /\ ~need_prepare

\* sessions over the maps of RegenMaps, with parameter changes between steps
NeighborNext ==
    \/ select_regen_folder
    \/ generate
    \/ mark_dirty
    \/ step_once

NeighborSpec == RegenInit /\ [][NeighborNext]_vars

\* the squared distance of two positions, in squared units of 1/Q pixel
SqDist(p, q) == (p[1] - q[1]) * (p[1] - q[1]) + (p[2] - q[2]) * (p[2] - q[2])

\* C26: a step that prepares builds the neighbor lists from the points and the
\* radius it finds: one list per point; j is a neighbor of i exactly when the
\* squared distance of the two points is above zero and at most the squared
\* radius. So no point is its own neighbor, two points at one position are
\* not neighbors, two points exactly one radius apart are, and j is a
\* neighbor of i exactly when i is a neighbor of j.
C26_Neighbors ==
    [][(/\ last'.op \in {"step_once", "start"}
        /\ (last_score = None \/ need_prepare)
        /\ "kernel" \notin malformed /\ "nb_radius" \notin malformed) =>
         /\ neighbors' # None
         /\ LET nb == Val(neighbors')
                R2 == (nb_radius * Q) * (nb_radius * Q)
            IN  /\ DOMAIN nb = 1 .. Len(points)
                /\ \A i, j \in 1 .. Len(points) :
                      /\ j \in nb[i] <=>
                           (0 < SqDist(points[i], points[j])
                              /\ SqDist(points[i], points[j]) <= R2)
                      /\ i \notin nb[i]
                      /\ points[i] = points[j] => j \notin nb[i]
                      /\ SqDist(points[i], points[j]) = R2 /\ R2 > 0 => j \in nb[i]
                      /\ j \in nb[i] <=> i \in nb[j]]_vars

\* neighbor lists built for two points exactly one radius apart, which are
\* neighbors, and a third point further than that from one of them
C26_Witness ==
    /\ neighbors # None
    /\ DOMAIN Val(neighbors) = 1 .. Len(points)
    /\ Val(neighbors) = build_neighbors(points, nb_radius)
    /\ \E i, j, m \in 1 .. Len(points) :
          /\ SqDist(points[i], points[j]) = (nb_radius * Q) * (nb_radius * Q)
          /\ j \in Val(neighbors)[i]
          /\ SqDist(points[i], points[m]) > (nb_radius * Q) * (nb_radius * Q)
          /\ m \notin Val(neighbors)[i]

\* neighbor lists built for two points that pairs have pulled to one position
\* (a state of Spec, where C26_Neighbors holds as well)
C26_WitnessCoincident ==
    /\ neighbors # None
    /\ DOMAIN Val(neighbors) = 1 .. Len(points)
    /\ Val(neighbors) = build_neighbors(points, nb_radius)
    /\ \E i, j \in 1 .. Len(points) :
          i # j /\ points[i] = points[j] /\ j \notin Val(neighbors)[i]

\* ------------------------------------------------------------ anchor cap
\* the numbers of control points of the sessions below: the cap is at its
\* floor for the first two, above it for the third and at its maximum for
\* the last
AnchorCounts == {9, 12, 50, 1500}

\* a map of one row of npoints occupied cells, and the control points generate
\* gives for it with n = npoints: one per cell
RowMap(npoints) == [c \in Grid(npoints, 1) |-> 0]

RowPoints(npoints) == [t \in 1 .. npoints |-> <<(t - 1) * Q, 0>>]

\* the session generate leaves on a row map, no control point confirmed
AnchorInit ==
    /\ \E np \in AnchorCounts :
          /\ processed_map = Some(RowMap(np))
          /\ points = RowPoints(np) /\ init = points /\ prev = points
          /\ n = np
    /\ pairs = <<>>
    /\ selected = None /\ running = FALSE /\ last_score = None
    /\ neighbors = None /\ kernels = <<>>
    /\ base_map = None /\ base_occ = None /\ work_occ = None /\ working_map = None
    /\ need_prepare = TRUE /\ anchor_idx = {}
    /\ kernel \in KernelVals /\ alpha \in AlphaVals
    /\ lc \in LcVals /\ ls \in LsVals /\ nb_radius \in NbRadiusVals
    /\ max_iters \in MaxItersVals /\ tol \in TolVals
    /\ malformed = {}
    /\ ca \in CaInitVals /\ ca_after_id = None /\ timers = {} /\ anchor_ca = None
    /\ lbl_iter = 0 /\ lbl_score = None
    /\ pending = <<>>
    /\ last = Quiet

\* how many control points are confirmed: none, one, about the cap, all
ConfirmedLens(npoints) ==
    {len \in {0, 1, AnchorCap(npoints) - 1, AnchorCap(npoints), AnchorCap(npoints) + 1,
              AnchorCap(npoints) + 2, AnchorCap(npoints) + 3, AnchorCap(npoints) + 5,
              npoints} : len <= npoints}

\* the confirmed control points: runs of consecutive indices, anywhere among
\* few control points, at either end among many
ConfirmedSets(npoints) ==
    {conf \in {a .. a + len - 1 : len \in ConfirmedLens(npoints),
                                  a \in IF npoints <= 50 THEN 1 .. npoints ELSE {1}}
               \cup {npoints - len + 1 .. npoints : len \in ConfirmedLens(npoints)} :
        conf \subseteq 1 .. npoints}

confirm_anchors == rebuild_anchors_over(ConfirmedSets(Len(points)), TRUE)

AnchorNext == confirm_anchors

AnchorSpec == AnchorInit /\ [][AnchorNext]_vars

\* the first m numbers of a set of numbers
FirstM(S, m) == {a \in S : Cardinality({b \in S : b < a}) < m}

CountVals == {0, 1, 2, 3, 7}

select_count_folder == select_folder_from(CountMaps)

type_n == set_n_over(CountVals)

generate_reported == generate_reporting(TRUE)

CountNext ==
    \/ select_count_folder
    \/ type_n
    \/ generate_reported

CountSpec == Init /\ [][CountNext]_vars

\* C28 as stated: on a map with an obstacle, generate leaves N control points
\* with 2 <= N <= min(2000, number of occupied cells)
C28_Original ==
    [][(/\ last'.op = "generate"
        /\ processed_map # None
        /\ occupied_coords(processed_map) # {}) =>
         /\ last'.res = "ok"
         /\ 2 <= Len(points')
         /\ Len(points') <= Min2(MaxPoints, Cardinality(occupied_coords(processed_map)))]_vars

\* on a map with at least two obstacles generate does leave that many points
C28_TwoOrMore ==
    [][(/\ last'.op = "generate"
        /\ processed_map # None
        /\ Cardinality(occupied_coords(processed_map)) >= 2) =>
         /\ last'.res = "ok"
         /\ Len(points') = IF n < 2 THEN 2
                           ELSE Min2(n, Cardinality(occupied_coords(processed_map)))]_vars

\* ------------------------------------------------------------ re-prepare
\* C29: a step that prepares again after a parameter change, on a session that
\* has a score, takes the points as it finds them for the initial points,
\* takes the occupancy of the visible map for the base grid, captures the
\* kernels from it at these points, and iterates on a working grid that starts
\* from the base grid: the working grid is the base grid after a rejected
\* iteration and the base grid with the one move composed after an accepted
\* one. A revert puts the points and the previous positions at the initial
\* points and the working grid at the base grid.
C29_RePrepare ==
    [][/\ (/\ last'.op \in {"step_once", "start"}
           /\ last'.res \in {"accepted", "rejected"}
           /\ need_prepare /\ last_score # None) =>
            LET bocc == OccOf(Val(processed_map))
            IN  /\ init' = points
                /\ base_occ' = Some(bocc)
                /\ base_map' = processed_map
                /\ Len(kernels') = Len(points)
                /\ \A t \in 1 .. Len(points) :
                      kernels'[t] = extract_kernel_at(bocc, points[t][1], points[t][2],
                                                      kernel')
                /\ last'.res = "rejected" =>
                      points' = points /\ work_occ' = Some(bocc)
                /\ last'.res = "accepted" =>
                      work_occ' = Some(compose_from_kernels(bocc, points, points', kernels'))
       /\ (base_map # None /\ last_score' = None /\ last_score # None /\ revert) =>
            /\ points' = init /\ prev' = init /\ init' = init
            /\ work_occ' = base_occ]_vars

\* a revert after a re-prepare of moved points: the points are back at the
\* positions of the re-prepare, off the pixel centers where generate puts them,
\* and the working grid is the base grid
C29_Witness ==
    /\ base_map # None /\ last_score = None /\ ~need_prepare
    /\ points = init /\ prev = init
    /\ work_occ = base_occ
    /\ \E t \in 1 .. Len(points) : points[t][1] % Q # 0 \/ points[t][2] % Q # 0

\* ------------------------------------------------------ previous positions
\* C30: in every state the previous positions are the points, and an accepted
\* iteration of a prepared session composes the working grid it finds with the
\* erase pass at the points it finds, where the kernels were last written, and
\* the write pass at the points it leaves.
C30_PrevIsPoints ==
    /\ [](prev = points)
    /\ [][(/\ last'.op \in {"step_once", "start", "tick"}
           /\ last'.res = "accepted"
           /\ ~need_prepare /\ last_score # None) =>
            /\ prev' = points'
            /\ work_occ' = Some(compose_from_kernels(Val(work_occ), points, points',
                                                     kernels))]_vars

\* a second accepted iteration in a row: its erase pass is at the positions the
\* first one wrote
C30_Witness ==
    /\ last.res = "accepted"
    /\ lbl_iter = 2
    /\ points # init
    /\ prev = points
    /\ work_occ # base_occ

====
